---- MODULE Spec2Model ----
(***************************************************************************)
(* A model of ConversationStore.js: the conversation object, the question  *)
(* cache and history, the requests the handlers issue with fetch, and the  *)
(* broadcasts they trigger.  A dispatched action runs its handler to the   *)
(* end in one step (riot's trigger is synchronous); the answer to a        *)
(* request runs the rest of its promise chain in one later step.  The      *)
(* callbacks ahead of the last one of a chain (_analyzeStatus, _parseJson) *)
(* touch no state of the store, so running the chain in one step loses no  *)
(* interleaving.  The listeners of the broadcasts are the views: they are  *)
(* not part of the store, and what they dispatch in turn is a later step.  *)
(***************************************************************************)
EXTENDS Naturals, Sequences, FiniteSets

\* The number of requests the store may issue over a run.
MaxRequests == 2

(***************************************************************************)
(* JavaScript values.  A value carries its type, so that truthiness and    *)
(* the conversion to a string (a property key, a piece of an URL) are      *)
(* computed as the language computes them.                                 *)
(***************************************************************************)
Undefined == [type |-> "undefined"]

Str(s) == [type |-> "string", str |-> s]

Arr(items) == [type |-> "object", items |-> items]

\* ToBoolean: undefined and the empty string are falsy, objects are truthy.
Truthy(v) ==
    CASE v.type = "undefined" -> FALSE
      [] v.type = "string"    -> v.str # ""
      [] OTHER                -> TRUE

\* ToString, as a property key (questionCache[messageId]) or in an URL.
ToString(v) == IF v.type = "undefined" THEN "undefined" ELSE v.str

\* constants.refinementQueryType
refinementQueryType == "refinement"

(***************************************************************************)
(* The names of action.js that the store triggers.                         *)
(***************************************************************************)
CONVERSATION_STARTED_BROADCAST == "CONVERSATION_STARTED_BROADCAST"
TOP_QUESTIONS_BROADCAST == "TOP_QUESTIONS_BROADCAST"
ASKING_QUESTION_BROADCAST == "ASKING_QUESTION_BROADCAST"
ANSWER_RECEIVED_BROADCAST == "ANSWER_RECEIVED_BROADCAST"
ALTERNATIVE_QUESTION_BROADCAST == "ALTERNATIVE_QUESTION_BROADCAST"
SERVER_ERROR_BROADCAST == "SERVER_ERROR_BROADCAST"
NONE_OF_THE_ABOVE_CLICKED_BROADCAST == "NONE_OF_THE_ABOVE_CLICKED_BROADCAST"
NEGATIVE_FEEDBACK_RECEIVED_BROADCAST == "NEGATIVE_FEEDBACK_RECEIVED_BROADCAST"
POSITIVE_FEEDBACK_RECEIVED_BROADCAST == "POSITIVE_FEEDBACK_RECEIVED_BROADCAST"
UPDATE_REFINEMENT_QUESTIONS_BROADCAST == "UPDATE_REFINEMENT_QUESTIONS_BROADCAST"

(***************************************************************************)
(* The inputs: what the views dispatch and what the server answers.        *)
(***************************************************************************)
\* question.messageId / the messageId of FORUM_BUTTON_PRESSED
QuestionMessageIds == {Undefined, Str(""), Str("m1"), Str("m2")}

\* question.message
QuestionMessages == {Undefined, Str("q")}

\* question.referrer
QuestionReferrers == {Undefined, Str("top"), Str(refinementQueryType)}

Questions ==
    [messageId : QuestionMessageIds, message : QuestionMessages,
     referrer : QuestionReferrers]

\* response.status
Statuses == {200, 204, 404}

\* A fetch promise that rejects: the request never got an answer.
Rejected == [type |-> "rejected"]

\* A body response.json() rejects.
InvalidJson == [type |-> "syntaxerror"]

\* The body of an answer to a feedback request: no chain reads it.
Unread == [type |-> "unread"]

Response(status, body) == [type |-> "response", status |-> status, body |-> body]

\* The JSON of an answer to CONVERSATION_START.
StartData ==
    [type : {"object"}, conversationId : {Str(""), Str("c1")},
     topQuestions : {Undefined, Arr(<<"t1">>)}]

\* data.messageId of an answer to ASK_QUESTION.  No answer carries "m2",
\* which the views may still ask for: an id the cache never holds.
AnswerMessageIds == {Str(""), Str("m1")}

\* data.message and data.responses of an answer to ASK_QUESTION.
Answers ==
    {[message |-> Str("hi"), responses |-> Arr(<<>>)],
     [message |-> Str("yo"), responses |-> Arr(<<"r1">>)]}

\* The JSON of an answer to ASK_QUESTION.
AskData ==
    {[type |-> "object", messageId |-> id, message |-> a.message,
      responses |-> a.responses] : id \in AnswerMessageIds, a \in Answers}

\* The JSON of an answer to GET_TOP_QUESTIONS.
TopQuestionsData ==
    [type : {"object"}, topQuestions : {Undefined, Arr(<<>>), Arr(<<"t2">>)}]

\* What a request whose JSON the chain reads may end in.
JsonResponses(Data) ==
    {Rejected}
        \cup {Response(s, b) : s \in Statuses, b \in {InvalidJson} \cup Data}

\* The statuses of the answers to a feedback request: the two ends of the
\* range its chain accepts, and their neighbours outside it.
FeedbackStatuses == {199, 200, 299, 300}

\* What a feedback request may end in.
FeedbackResponses == {Rejected} \cup {Response(s, Unread) : s \in FeedbackStatuses}

VARIABLES
    conversation,     \* self.conversation
    questionHistory,  \* self.questionHistory
    questionCache,    \* self.questionCache: property key -> {message, responses}
    requests,         \* the requests in flight, in the order fetch issued them
    issued,           \* how many requests fetch has issued so far
    last              \* the step just taken: the handler or the chain that ran

vars == <<conversation, questionHistory, questionCache, requests, issued, last>>

\* self.trigger(name, payload)
Broadcast(name, payload) == [name |-> name, payload |-> payload]

\* new Error(...), the payload of SERVER_ERROR_BROADCAST
Error(cause) == [type |-> "error", cause |-> cause]

\* The names of the broadcasts of a sequence of them.
Names(broadcasts) == [i \in 1..Len(broadcasts) |-> broadcasts[i].name]

\* self.questionCache[messageId].  The ids are those the server issues; none
\* is the name of a property every object inherits.
CacheGet(cache, messageId) ==
    IF ToString(messageId) \in DOMAIN cache
    THEN cache[ToString(messageId)]
    ELSE Undefined

\* An assignment that is lost.
CachePutNothing(cache, messageId, entry) == cache

\* A cache that holds the newest entry alone.
CachePutAlone(cache, messageId, entry) ==
    [k \in {ToString(messageId)} |-> entry]

\* self.questionCache[messageId] = entry
CachePut(cache, messageId, entry) ==
    [k \in DOMAIN cache \cup {ToString(messageId)} |->
        IF k = ToString(messageId) THEN entry ELSE cache[k]]

\* fetch(url, {method, body}): the request, with the action whose handler
\* issues it and the broadcasts that handler has triggered before the call.
\* overtaken is no part of the request: it records that the answer to a
\* question asked later has been applied while this request was in flight.
Fetch(action, method, url, body, broadcasts) ==
    [type |-> "request", action |-> action, method |-> method, url |-> url,
     body |-> body, broadcasts |-> broadcasts, overtaken |-> FALSE]

\* The step record of a handler: the action and its argument, the request
\* it issued (Undefined when none) and the broadcasts it triggered, in order.
Handled(action, arg, request, broadcasts) ==
    [op |-> action, arg |-> arg, request |-> request, response |-> Undefined,
     broadcasts |-> broadcasts]

\* The step record of the promise chain that ran on the answer to a request:
\* of the answer it keeps the status, the data shows in the store.
Settled(request, response, broadcasts) ==
    [op |-> "response", arg |-> Undefined, request |-> request,
     response |->
        IF response.type = "response"
        THEN [type |-> "response", status |-> response.status,
              json |-> response.body # InvalidJson]
        ELSE response,
     broadcasts |-> broadcasts]

\* The sequence s without its i-th element.
Remove(s, i) == [j \in 1..(Len(s) - 1) |-> IF j < i THEN s[j] ELSE s[j + 1]]

Init ==
    /\ conversation =
        [conversationId |-> Str(""), message |-> Str(""), messageId |-> Str(""),
         responses |-> Arr(<<>>), topQuestions |-> Arr(<<>>)]
    /\ questionHistory = <<>>
    /\ questionCache = [k \in {} |-> Undefined]
    /\ requests = <<>>
    /\ issued = 0
    /\ last = Handled("new", Undefined, Undefined, <<>>)

(***************************************************************************)
(* The pieces of the handlers.                                             *)
(***************************************************************************)
\* The range of the feedback chains, used by _analyzeStatus.
analyzeStatusInRange(response) ==
    ~(response.status < 200 \/ response.status >= 300)

\* _analyzeStatus: the response passes when its status is 200, and the
\* chain throws otherwise.
analyzeStatus(response) == response.status = 200

\* The range of the feedback chains, used here too.
StartStatusOk2xx(response) == ~(response.status < 200 \/ response.status >= 300)

\* No check of the status at all.
StartStatusOkAny(response) == TRUE

\* The status check of CONVERSATION_START's chain.
StartStatusOk(response) == response.status = 200

\* The check of the content calls, used for the feedback too.
FeedbackStatusOkOnly200(response) == response.status = 200

\* The status check of the feedback chains: they throw outside [200, 300).
FeedbackStatusOk(response) == ~(response.status < 200 \/ response.status >= 300)

\* _parseJson: response.json() gives the data, or rejects.
parseJson(response) == response.body

\* Whether a chain that checks the status with statusOk and then reads the
\* JSON reaches its last callback.
ChainReachesData(response, statusOk) ==
    /\ response.type = "response"
    /\ statusOk
    /\ parseJson(response) # InvalidJson

\* Whether a feedback chain ends without an error.
FeedbackChainOk(response) ==
    /\ response.type = "response"
    /\ FeedbackStatusOk(response)

\* What the catch of a chain gets.
Caught(response, statusOk) ==
    IF response.type = "rejected" THEN Error("network")
    ELSE IF ~statusOk THEN Error("status")
    ELSE Error("json")

\* A catch that swallows the error.
CatchNothing(error) == <<>>

\* The catch callback of every chain.
CatchBroadcasts(error) == <<Broadcast(SERVER_ERROR_BROADCAST, error)>>

\* A lookup that forgets to test messageId itself.
IsCachedAnyKey(messageId, cachedMessage) == Truthy(cachedMessage)

\* if (messageId && cachedMessage)
IsCached(messageId, cachedMessage) == Truthy(messageId) /\ Truthy(cachedMessage)

\* A recall that forgets the message.
RecallWithoutMessage(conv, messageId, cachedMessage) ==
    [conv EXCEPT
        !.responses = cachedMessage.responses,
        !.messageId = messageId]

\* A recall that also empties the top questions.
RecallDroppingTopQuestions(conv, messageId, cachedMessage) ==
    [conv EXCEPT
        !.responses = cachedMessage.responses,
        !.messageId = messageId,
        !.message = cachedMessage.message,
        !.topQuestions = Arr(<<>>)]

\* "recall from cache": the three assignments to self.conversation.
Recall(conv, messageId, cachedMessage) ==
    [conv EXCEPT
        !.responses = cachedMessage.responses,
        !.messageId = messageId,
        !.message = cachedMessage.message]

\* The two broadcasts of an answer, the alternatives ahead of the answer.
AnswerBroadcastsAlternativeFirst(conv) ==
    <<Broadcast(ALTERNATIVE_QUESTION_BROADCAST, conv),
      Broadcast(ANSWER_RECEIVED_BROADCAST, conv)>>

\* The two broadcasts of an answer, each with self.conversation.
AnswerBroadcasts(conv) ==
    <<Broadcast(ANSWER_RECEIVED_BROADCAST, conv),
      Broadcast(ALTERNATIVE_QUESTION_BROADCAST, conv)>>

\* A requestBody whose referrer has the messageId whatever the referrer is.
RequestBodyWithMessageId(question, conv) ==
    [message |->
        IF Truthy(question.message) THEN question.message ELSE Undefined,
     referrer |->
        IF Truthy(question.referrer)
        THEN [type |-> "object",
              source |-> question.referrer,
              messageId |-> conv.messageId]
        ELSE Undefined]

\* requestBody of ASK_QUESTION, as JSON.stringify writes it: a property
\* that is undefined is left out.
RequestBody(question, conv) ==
    [message |->
        IF Truthy(question.message) THEN question.message ELSE Undefined,
     referrer |->
        IF Truthy(question.referrer)
        THEN [type |-> "object",
              source |-> question.referrer,
              messageId |->
                IF question.referrer = Str(refinementQueryType)
                THEN conv.messageId
                ELSE Undefined]
        ELSE Undefined]

\* postData of the feedback handlers.
PostData(conv, messageId, feedback) ==
    [conversationId |-> conv.conversationId, messageId |-> messageId,
     action |-> feedback]

\* constants.conversationUrl + conversationId + suffix
ConversationUrl(conversationId, suffix) ==
    <<"conversationUrl", ToString(conversationId), suffix>>

\* constants.conversationUrl
StartUrl == <<"conversationUrl">>

\* constants.feedbackUrl
FeedbackUrl == <<"feedbackUrl">>

\* self.topQuestions: a property of the store that nothing assigns.
selfTopQuestions == Undefined

\* A push at the wrong end.
HistoryUnshift(history, oldMessageId) == <<oldMessageId>> \o history

\* A push that skips an id the history has already.
HistoryPushUnlessPresent(history, oldMessageId) ==
    IF \E k \in 1..Len(history) : history[k] = oldMessageId
    THEN history
    ELSE Append(history, oldMessageId)

\* self.questionHistory.push(oldMessageId)
HistoryPush(history, oldMessageId) == Append(history, oldMessageId)

\* A cache entry that loses the responses.
CacheEntryWithoutResponses(data) ==
    [type |-> "object", message |-> data.message, responses |-> Arr(<<>>)]

\* The cache entry of an answer.
CacheEntry(data) ==
    [type |-> "object", message |-> data.message, responses |-> data.responses]

(***************************************************************************)
(* The handlers.                                                           *)
(***************************************************************************)
\* A call of fetch: one more request in flight.
Issue(request) ==
    /\ issued < MaxRequests
    /\ issued' = issued + 1
    /\ requests' = Append(requests, request)

\* self.on(action.CONVERSATION_START, ...)
ConversationStart ==
    LET request == Fetch("CONVERSATION_START", "post", StartUrl, Undefined, <<>>)
    IN  /\ Issue(request)
        /\ last' = Handled("CONVERSATION_START", Undefined, request, <<>>)
        /\ UNCHANGED <<conversation, questionHistory, questionCache>>

\* self.on(action.ASK_QUESTION, ...)
AskQuestion(question) ==
    LET messageId == question.messageId
        cachedMessage == CacheGet(questionCache, messageId)
        asking == <<Broadcast(ASKING_QUESTION_BROADCAST, Undefined)>>
        request == Fetch("ASK_QUESTION", "post",
                         ConversationUrl(conversation.conversationId, ""),
                         RequestBody(question, conversation), Names(asking))
    IN  IF IsCached(messageId, cachedMessage)
        THEN /\ conversation' = Recall(conversation, messageId, cachedMessage)
             /\ last' = Handled("ASK_QUESTION", question, Undefined,
                    asking \o AnswerBroadcasts(conversation'))
             /\ UNCHANGED <<questionHistory, questionCache, requests, issued>>
        ELSE /\ Issue(request)
             /\ last' = Handled("ASK_QUESTION", question, request, asking)
             /\ UNCHANGED <<conversation, questionHistory, questionCache>>

\* The feedback handlers: the broadcasts come first, then the fetch.
Feedback(action, arg, broadcasts, messageId, feedback) ==
    LET request == Fetch(action, "post", FeedbackUrl,
                         PostData(conversation, messageId, feedback),
                         Names(broadcasts))
    IN  /\ Issue(request)
        /\ last' = Handled(action, arg, request, broadcasts)
        /\ UNCHANGED <<conversation, questionHistory, questionCache>>

\* A handler that forgets its broadcast.
NoneOfTheAboveClickedSilently ==
    Feedback("NONE_OF_THE_ABOVE_CLICKED", Undefined, <<>>,
             conversation.messageId, "NO_HELPFUL_REFINEMENTS")

\* self.on(action.NONE_OF_THE_ABOVE_CLICKED, ...)
NoneOfTheAboveClicked ==
    Feedback("NONE_OF_THE_ABOVE_CLICKED", Undefined,
             <<Broadcast(NONE_OF_THE_ABOVE_CLICKED_BROADCAST, Undefined)>>,
             conversation.messageId, "NO_HELPFUL_REFINEMENTS")

\* self.on(action.NEGATIVE_FEEDBACK_GIVEN, ...)
NegativeFeedbackGiven ==
    Feedback("NEGATIVE_FEEDBACK_GIVEN", Undefined,
             <<Broadcast(NEGATIVE_FEEDBACK_RECEIVED_BROADCAST, Undefined)>>,
             conversation.messageId, "UNHELPFUL")

\* self.on(action.POSITIVE_FEEDBACK_GIVEN, ...)
PositiveFeedbackGiven ==
    Feedback("POSITIVE_FEEDBACK_GIVEN", Undefined,
             <<Broadcast(POSITIVE_FEEDBACK_RECEIVED_BROADCAST, Undefined)>>,
             conversation.messageId, "HELPFUL")

\* self.on(action.FORUM_BUTTON_PRESSED, ...)
ForumButtonPressed(messageId) ==
    Feedback("FORUM_BUTTON_PRESSED", messageId, <<>>,
             IF Truthy(messageId) THEN messageId ELSE conversation.messageId,
             "FORUM_REDIRECT")

\* self.on(action.SET_CURRENT_QUESTION, ...)
SetCurrentQuestion(question) ==
    LET messageId == question.messageId
        cachedMessage == CacheGet(questionCache, messageId)
    IN  /\ conversation' =
            IF IsCached(messageId, cachedMessage)
            THEN Recall(conversation, messageId, cachedMessage)
            ELSE conversation
        /\ last' = Handled("SET_CURRENT_QUESTION", question, Undefined, <<>>)
        /\ UNCHANGED <<questionHistory, questionCache, requests, issued>>

\* A handler that recalls the question into the conversation as well.
UpdateRefinementQuestionsRecalling(question) ==
    LET messageId == question.messageId
        cachedMessage == CacheGet(questionCache, messageId)
    IN  /\ last' = Handled("UPDATE_REFINEMENT_QUESTIONS", question, Undefined,
                IF IsCached(messageId, cachedMessage)
                THEN <<Broadcast(UPDATE_REFINEMENT_QUESTIONS_BROADCAST,
                        [responses |-> cachedMessage.responses,
                         messageId |-> messageId,
                         message |-> cachedMessage.message])>>
                ELSE <<>>)
        /\ conversation' =
            IF IsCached(messageId, cachedMessage)
            THEN Recall(conversation, messageId, cachedMessage)
            ELSE conversation
        /\ UNCHANGED <<questionHistory, questionCache, requests, issued>>

\* self.on(action.UPDATE_REFINEMENT_QUESTIONS, ...)
UpdateRefinementQuestions(question) ==
    LET messageId == question.messageId
        cachedMessage == CacheGet(questionCache, messageId)
    IN  /\ last' = Handled("UPDATE_REFINEMENT_QUESTIONS", question, Undefined,
                IF IsCached(messageId, cachedMessage)
                THEN <<Broadcast(UPDATE_REFINEMENT_QUESTIONS_BROADCAST,
                        [responses |-> cachedMessage.responses,
                         messageId |-> messageId,
                         message |-> cachedMessage.message])>>
                ELSE <<>>)
        /\ UNCHANGED <<conversation, questionHistory, questionCache, requests, issued>>

\* self.on(action.GET_ALTERNATIVE_QUESTIONS, ...)
GetAlternativeQuestions ==
    /\ last' = Handled("GET_ALTERNATIVE_QUESTIONS", Undefined, Undefined,
            <<Broadcast(ALTERNATIVE_QUESTION_BROADCAST, conversation)>>)
    /\ UNCHANGED <<conversation, questionHistory, questionCache, requests, issued>>

\* A test that forgets the top questions it has.
FetchesWheneverStarted(conv) == Truthy(conv.conversationId)

\* if (self.conversation.conversationId && !self.conversation.topQuestions)
FetchesTopQuestions(conv) ==
    Truthy(conv.conversationId) /\ ~Truthy(conv.topQuestions)

\* else if (self.conversation && self.topQuestions)
RebroadcastsTopQuestions(conv) == Truthy(selfTopQuestions)

\* self.on(action.GET_TOP_QUESTIONS, ...)
GetTopQuestions ==
    IF FetchesTopQuestions(conversation)
    THEN LET request ==
                Fetch("GET_TOP_QUESTIONS", "get",
                      ConversationUrl(conversation.conversationId, "/topQuestions"),
                      Undefined, <<>>)
         IN  /\ Issue(request)
             /\ last' = Handled("GET_TOP_QUESTIONS", Undefined, request, <<>>)
             /\ UNCHANGED <<conversation, questionHistory, questionCache>>
    ELSE /\ last' = Handled("GET_TOP_QUESTIONS", Undefined, Undefined,
                IF RebroadcastsTopQuestions(conversation)
                THEN <<Broadcast(TOP_QUESTIONS_BROADCAST, conversation.topQuestions)>>
                ELSE <<>>)
         /\ UNCHANGED <<conversation, questionHistory, questionCache, requests, issued>>

(***************************************************************************)
(* The promise chains: what runs when request i is answered.               *)
(***************************************************************************)
\* The answer to the i-th request in flight arrives: its chain runs, once.
Settle(i, response, broadcasts) ==
    /\ requests' = Remove(requests, i)
    /\ last' = Settled(requests[i], response, broadcasts)
    /\ UNCHANGED issued

Pending(i, action) ==
    /\ i \in 1..Len(requests)
    /\ requests[i].action = action

\* The chain of CONVERSATION_START.
StartResponse(i, response) ==
    /\ Pending(i, "CONVERSATION_START")
    /\ LET statusOk == response.type = "response" /\ StartStatusOk(response)
           ok == ChainReachesData(response, statusOk)
           data == parseJson(response)
           conv == IF ok
                   THEN [conversation EXCEPT
                            !.conversationId = data.conversationId,
                            !.topQuestions = data.topQuestions]
                   ELSE conversation
           broadcasts ==
                IF ok
                THEN <<Broadcast(CONVERSATION_STARTED_BROADCAST, conv),
                       Broadcast(TOP_QUESTIONS_BROADCAST, conv.topQuestions)>>
                ELSE CatchBroadcasts(Caught(response, statusOk))
       IN  /\ conversation' = conv
           /\ Settle(i, response, broadcasts)
    /\ UNCHANGED <<questionHistory, questionCache>>

\* The requests in flight when the answer to the i-th is applied: the
\* questions asked before it that are still unanswered have been overtaken.
Overtake(inFlight, i) ==
    [j \in 1..Len(inFlight) |->
        IF j < i /\ inFlight[j].action = "ASK_QUESTION"
        THEN [inFlight[j] EXCEPT !.overtaken = TRUE]
        ELSE inFlight[j]]

\* A chain that drops the answer to a question when the answer to a later
\* one has been applied.
AskResponseFenced(i, response) ==
    /\ Pending(i, "ASK_QUESTION")
    /\ LET statusOk == response.type = "response" /\ analyzeStatus(response)
           ok == ChainReachesData(response, statusOk)
           data == parseJson(response)
           oldMessageId == data.messageId
           conv == IF ok /\ ~requests[i].overtaken
                   THEN [conversation EXCEPT
                            !.responses = data.responses,
                            !.messageId = data.messageId,
                            !.message = data.message]
                   ELSE conversation
           broadcasts ==
                IF ok
                THEN AnswerBroadcasts(conv)
                ELSE CatchBroadcasts(Caught(response, statusOk))
       IN  /\ questionHistory' =
                IF ok THEN HistoryPush(questionHistory, oldMessageId) ELSE questionHistory
           /\ questionCache' =
                IF ok
                THEN CachePut(questionCache, oldMessageId, CacheEntry(data))
                ELSE questionCache
           /\ conversation' = conv
           /\ requests' =
                Remove(IF ok THEN Overtake(requests, i) ELSE requests, i)
           /\ last' = Settled(requests[i], response, broadcasts)
           /\ UNCHANGED issued

\* The chain of ASK_QUESTION.
AskResponse(i, response) ==
    /\ Pending(i, "ASK_QUESTION")
    /\ LET statusOk == response.type = "response" /\ analyzeStatus(response)
           ok == ChainReachesData(response, statusOk)
           data == parseJson(response)
           oldMessageId == data.messageId
           conv == IF ok
                   THEN [conversation EXCEPT
                            !.responses = data.responses,
                            !.messageId = data.messageId,
                            !.message = data.message]
                   ELSE conversation
           broadcasts ==
                IF ok
                THEN AnswerBroadcasts(conv)
                ELSE CatchBroadcasts(Caught(response, statusOk))
       IN  /\ questionHistory' =
                IF ok THEN HistoryPush(questionHistory, oldMessageId) ELSE questionHistory
           /\ questionCache' =
                IF ok
                THEN CachePut(questionCache, oldMessageId, CacheEntry(data))
                ELSE questionCache
           /\ conversation' = conv
           /\ requests' =
                Remove(IF ok THEN Overtake(requests, i) ELSE requests, i)
           /\ last' = Settled(requests[i], response, broadcasts)
           /\ UNCHANGED issued

\* The chain of GET_TOP_QUESTIONS.
TopQuestionsResponse(i, response) ==
    /\ Pending(i, "GET_TOP_QUESTIONS")
    /\ LET statusOk == response.type = "response" /\ analyzeStatus(response)
           ok == ChainReachesData(response, statusOk)
           data == parseJson(response)
           conv == IF ok
                   THEN [conversation EXCEPT !.topQuestions = data.topQuestions]
                   ELSE conversation
           broadcasts ==
                IF ok
                THEN <<Broadcast(TOP_QUESTIONS_BROADCAST, conv.topQuestions)>>
                ELSE CatchBroadcasts(Caught(response, statusOk))
       IN  /\ conversation' = conv
           /\ Settle(i, response, broadcasts)
    /\ UNCHANGED <<questionHistory, questionCache>>

FeedbackActions ==
    {"NONE_OF_THE_ABOVE_CLICKED", "NEGATIVE_FEEDBACK_GIVEN",
     "POSITIVE_FEEDBACK_GIVEN", "FORUM_BUTTON_PRESSED"}

\* The chain of the four feedback handlers.
FeedbackResponse(i, response) ==
    /\ \E action \in FeedbackActions : Pending(i, action)
    /\ LET ok == FeedbackChainOk(response)
           broadcasts ==
                IF ok
                THEN <<>>
                ELSE CatchBroadcasts(Caught(response, ok))
       IN  Settle(i, response, broadcasts)
    /\ UNCHANGED <<conversation, questionHistory, questionCache>>

Next ==
    \/ ConversationStart
    \/ \E question \in Questions : AskQuestion(question)
    \/ NoneOfTheAboveClicked
    \/ NegativeFeedbackGiven
    \/ PositiveFeedbackGiven
    \/ \E messageId \in QuestionMessageIds : ForumButtonPressed(messageId)
    \/ \E messageId \in QuestionMessageIds :
            SetCurrentQuestion([messageId |-> messageId])
    \/ \E messageId \in QuestionMessageIds :
            UpdateRefinementQuestions([messageId |-> messageId])
    \/ GetAlternativeQuestions
    \/ GetTopQuestions
    \/ \E i \in 1..Len(requests), response \in JsonResponses(StartData) :
            StartResponse(i, response)
    \/ \E i \in 1..Len(requests), response \in JsonResponses(AskData) :
            AskResponse(i, response)
    \/ \E i \in 1..Len(requests), response \in JsonResponses(TopQuestionsData) :
            TopQuestionsResponse(i, response)
    \/ \E i \in 1..Len(requests), response \in FeedbackResponses :
            FeedbackResponse(i, response)

Spec == Init /\ [][Next]_vars

(***************************************************************************)
(* What the properties below read off a step.                              *)
(***************************************************************************)
\* The names of the broadcasts of the step just taken, in order.
StepNames == Names(last.broadcasts)

\* The step just taken triggered the broadcast name.
Triggered(name) == \E k \in 1..Len(last.broadcasts) : last.broadcasts[k].name = name

\* The step just taken was the handler of action.
Dispatched(action) == last.op = action

\* The step just taken issued a request.
Fetched == last.request # Undefined /\ last.op # "response"

\* The step just taken was the chain of a request of action.
ChainRan(action) == last.op = "response" /\ last.request.action = action

\* The chain just run got an answer with status 200 and JSON in its body.
Got200WithJson ==
    /\ last.response.type = "response"
    /\ last.response.status = 200
    /\ last.response.json

\* messageId is a key of the cache.
InCache(messageId) == ToString(messageId) \in DOMAIN questionCache

\* The handler of ASK_QUESTION just answered from the cache: no request, and
\* an ANSWER_RECEIVED_BROADCAST whose conversation is the cached one.
AnsweredFromCache ==
    /\ ~Fetched
    /\ \E k \in 1..Len(last.broadcasts) :
        LET b == last.broadcasts[k]
            cached == questionCache[ToString(last.arg.messageId)]
        IN  /\ b.name = ANSWER_RECEIVED_BROADCAST
            /\ b.payload.messageId = last.arg.messageId
            /\ b.payload.message = cached.message
            /\ b.payload.responses = cached.responses

(***************************************************************************)
(* C1.  As stated: for every messageId that is a key of the cache,         *)
(* ASK_QUESTION with it triggers ANSWER_RECEIVED_BROADCAST in the handler, *)
(* issues no request, and the conversation broadcast carries the cached    *)
(* message and responses and that messageId.  The handler leaves the cache *)
(* alone, so the cache of the state after it is the cache it looked up.    *)
(* This fails for the key "": an answer whose messageId is empty is cached *)
(* under "", and asking for "" goes to the network.                        *)
(***************************************************************************)
C1_EveryCachedKeyAnswersFromCache ==
    (Dispatched("ASK_QUESTION") /\ InCache(last.arg.messageId))
        => AnsweredFromCache

\* C1, amended: the same for every non-empty messageId that is a key of the
\* cache.
C1_CachedAskAnswersFromCache ==
    (Dispatched("ASK_QUESTION")
        /\ last.arg.messageId \notin {Undefined, Str("")}
        /\ InCache(last.arg.messageId))
        => AnsweredFromCache

\* C1's case: a cached id was asked for after the conversation had moved on
\* to another message.
C1_Witness ==
    /\ Dispatched("ASK_QUESTION")
    /\ last.arg.messageId = Str("m1")
    /\ InCache(Str("m1"))
    /\ InCache(Str(""))
    /\ questionCache["m1"].message # questionCache[""].message
    /\ conversation.message = questionCache["m1"].message

\* The handler, on a miss: one POST in flight and no answer.
C2_MissFetches ==
    (Dispatched("ASK_QUESTION")
        /\ (last.arg.messageId \in {Undefined, Str("")}
                \/ ~InCache(last.arg.messageId)))
        => /\ Fetched
           /\ last.request.action = "ASK_QUESTION"
           /\ last.request.method = "post"
           /\ requests # <<>>
           /\ requests[Len(requests)] = last.request
           /\ StepNames = <<ASKING_QUESTION_BROADCAST>>

\* An ASK_QUESTION request in flight: only the asking signal so far.
C2_NoAnswerInFlight ==
    \A i \in 1..Len(requests) :
        requests[i].action = "ASK_QUESTION"
            => requests[i].broadcasts = <<ASKING_QUESTION_BROADCAST>>

\* The chain of ASK_QUESTION answers only on success.
C2_AnswerOnlyOnSuccess ==
    (ChainRan("ASK_QUESTION")
        /\ (Triggered(ANSWER_RECEIVED_BROADCAST)
                \/ Triggered(ALTERNATIVE_QUESTION_BROADCAST)))
        => Got200WithJson

\* The handler calls fetch once.
C2_OnePost ==
    (last'.op = "ASK_QUESTION" /\ last'.request # Undefined)
        => /\ issued' = issued + 1
           /\ requests' = Append(requests, last'.request)

(***************************************************************************)
(* C2.  ASK_QUESTION with a messageId that is no key of the cache, or that *)
(* is missing or empty whatever the cache holds, issues exactly one POST   *)
(* and triggers no answer in the handler; while the request is in flight   *)
(* its action has triggered ASKING_QUESTION_BROADCAST only; and the chain  *)
(* of an ASK_QUESTION request triggers ANSWER_RECEIVED_BROADCAST or        *)
(* ALTERNATIVE_QUESTION_BROADCAST only on an answer with status 200.       *)
(***************************************************************************)
C2_MissAsksTheNetworkFirst ==
    /\ [](C2_MissFetches /\ C2_NoAnswerInFlight /\ C2_AnswerOnlyOnSuccess)
    /\ [][C2_OnePost]_vars

\* C2's case: the empty messageId was asked for while the cache had the key
\* "", and the request went out.
C2_Witness ==
    /\ Dispatched("ASK_QUESTION")
    /\ last.arg.messageId = Str("")
    /\ InCache(Str(""))
    /\ Fetched

\* The chain of ASK_QUESTION on a 200 answer with data.
C3_Step ==
    (last'.op = "response" /\ last'.request.action = "ASK_QUESTION")
        => \A i \in 1..Len(requests), data \in AskData :
            AskResponse(i, Response(200, data))
                => /\ questionHistory' = Append(questionHistory, data.messageId)
                   /\ ToString(data.messageId) \in DOMAIN questionCache'
                   /\ questionCache'[ToString(data.messageId)].message = data.message
                   /\ questionCache'[ToString(data.messageId)].responses
                        = data.responses

(***************************************************************************)
(* C3.  The chain of ASK_QUESTION on an answer with status 200 and the     *)
(* data {messageId: m, message: t, responses: r} leaves the cache mapping  *)
(* m to {message: t, responses: r} and the history as it was with m        *)
(* appended.                                                               *)
(***************************************************************************)
C3_AnswerIsCachedAndAppended == [][C3_Step]_vars

\* C3's case: a second answer, with another messageId than the first, went
\* through the chain.
C3_Witness ==
    /\ ChainRan("ASK_QUESTION")
    /\ Got200WithJson
    /\ Len(questionHistory) = 2
    /\ questionHistory[1] # questionHistory[2]

(***************************************************************************)
(* C4.  Whenever a step of ASK_QUESTION, its handler or its chain, has     *)
(* triggered ANSWER_RECEIVED_BROADCAST or ALTERNATIVE_QUESTION_BROADCAST,  *)
(* the cache holds, under the messageId of the conversation broadcast, the *)
(* message and responses broadcast.  The triggers are the last statements  *)
(* of the handler and of the chain, so the cache after the step is the     *)
(* cache the listeners saw.                                                *)
(***************************************************************************)
C4_AnswersAreCached ==
    (Dispatched("ASK_QUESTION") \/ ChainRan("ASK_QUESTION"))
        => \A k \in 1..Len(last.broadcasts) :
            LET b == last.broadcasts[k]
            IN  b.name \in {ANSWER_RECEIVED_BROADCAST, ALTERNATIVE_QUESTION_BROADCAST}
                    => /\ InCache(b.payload.messageId)
                       /\ questionCache[ToString(b.payload.messageId)].message
                            = b.payload.message
                       /\ questionCache[ToString(b.payload.messageId)].responses
                            = b.payload.responses

\* C4's case: the chain of ASK_QUESTION broadcast an answer from the network.
C4_Witness ==
    /\ ChainRan("ASK_QUESTION")
    /\ Triggered(ANSWER_RECEIVED_BROADCAST)
    /\ Triggered(ALTERNATIVE_QUESTION_BROADCAST)

\* The chain of CONVERSATION_START on an answer that is not a 200.
C5_Step ==
    (last'.op = "response" /\ last'.request.action = "CONVERSATION_START")
        => \A i \in 1..Len(requests), response \in JsonResponses(StartData) :
            (StartResponse(i, response)
                /\ response.type = "response"
                /\ response.status # 200)
                => /\ Names(last'.broadcasts) = <<SERVER_ERROR_BROADCAST>>
                   /\ conversation'.conversationId = conversation.conversationId
                   /\ conversation'.topQuestions = conversation.topQuestions

(***************************************************************************)
(* C5.  The chain of CONVERSATION_START on an answer whose status is not   *)
(* 200 triggers SERVER_ERROR_BROADCAST once and nothing else, and leaves   *)
(* conversationId and topQuestions as they were.                           *)
(***************************************************************************)
C5_FailedStartOnlyReportsTheError == [][C5_Step]_vars

\* C5's case: a conversation was started, and a second CONVERSATION_START
\* was answered with another status than 200.
C5_Witness ==
    /\ ChainRan("CONVERSATION_START")
    /\ last.response.type = "response"
    /\ last.response.status # 200
    /\ conversation.conversationId = Str("c1")

\* A step that changes conversationId.
C6_Step ==
    conversation'.conversationId # conversation.conversationId
        => /\ last'.op = "response"
           /\ last'.request.action = "CONVERSATION_START"
           /\ last'.response.type = "response"
           /\ last'.response.status = 200
           /\ last'.response.json

(***************************************************************************)
(* C6.  conversationId is empty at first, and the only step that changes   *)
(* it is the chain of CONVERSATION_START on an answer with status 200: so  *)
(* it is empty as long as no CONVERSATION_START has succeeded.             *)
(***************************************************************************)
C6_ConversationIdEmptyUntilStarted ==
    /\ conversation.conversationId = Str("")
    /\ [][C6_Step]_vars

\* C6's case: a CONVERSATION_START succeeded and set the conversationId.
C6_Witness ==
    /\ ChainRan("CONVERSATION_START")
    /\ Got200WithJson
    /\ conversation.conversationId = Str("c1")

(***************************************************************************)
(* C7.  GET_TOP_QUESTIONS with topQuestions set (here: a list that is not  *)
(* empty) issues no request and triggers TOP_QUESTIONS_BROADCAST with      *)
(* conversation.topQuestions.  The handler leaves the conversation alone,  *)
(* so the conversation after it is the one it tested.                      *)
(***************************************************************************)
C7_SetTopQuestionsAreRebroadcast ==
    (Dispatched("GET_TOP_QUESTIONS")
        /\ conversation.topQuestions \notin {Undefined, Arr(<<>>)})
        => /\ ~Fetched
           /\ last.broadcasts
                = <<Broadcast(TOP_QUESTIONS_BROADCAST, conversation.topQuestions)>>

\* The handler: when it calls fetch, and with what.
C8_FetchesExactlyWhenUnset ==
    Dispatched("GET_TOP_QUESTIONS")
        => /\ Fetched <=> (/\ conversation.conversationId # Str("")
                           /\ conversation.topQuestions = Undefined)
           /\ Fetched
                => /\ last.request.method = "get"
                   /\ last.request.url =
                        <<"conversationUrl", conversation.conversationId.str,
                          "/topQuestions">>
                   /\ requests # <<>>
                   /\ requests[Len(requests)] = last.request

\* The chain of GET_TOP_QUESTIONS on a 200 answer with data.
C8_Step ==
    (last'.op = "response" /\ last'.request.action = "GET_TOP_QUESTIONS")
        => \A i \in 1..Len(requests), data \in TopQuestionsData :
            TopQuestionsResponse(i, Response(200, data))
                => /\ conversation'.topQuestions = data.topQuestions
                   /\ last'.broadcasts
                        = <<Broadcast(TOP_QUESTIONS_BROADCAST, data.topQuestions)>>

(***************************************************************************)
(* C8.  GET_TOP_QUESTIONS issues a request exactly when conversationId is  *)
(* not empty and topQuestions is unset, and the request is a GET of        *)
(* {conversationId}/topQuestions; the chain of that request, on an answer  *)
(* with status 200 and the data {topQuestions: t}, stores t and triggers   *)
(* TOP_QUESTIONS_BROADCAST with t.                                         *)
(***************************************************************************)
C8_TopQuestionsFetchedWhenUnset ==
    /\ []C8_FetchesExactlyWhenUnset
    /\ [][C8_Step]_vars

\* C8's case: the top questions were unset, were fetched and were stored.
C8_Witness ==
    /\ ChainRan("GET_TOP_QUESTIONS")
    /\ Got200WithJson
    /\ conversation.topQuestions = Arr(<<"t2">>)

\* The feedback actions that broadcast at once.
ImmediateFeedbackActions ==
    {"NONE_OF_THE_ABOVE_CLICKED", "NEGATIVE_FEEDBACK_GIVEN",
     "POSITIVE_FEEDBACK_GIVEN"}

\* The broadcast of each.
ImmediateBroadcast(action) ==
    CASE action = "NONE_OF_THE_ABOVE_CLICKED" -> NONE_OF_THE_ABOVE_CLICKED_BROADCAST
      [] action = "NEGATIVE_FEEDBACK_GIVEN" -> NEGATIVE_FEEDBACK_RECEIVED_BROADCAST
      [] action = "POSITIVE_FEEDBACK_GIVEN" -> POSITIVE_FEEDBACK_RECEIVED_BROADCAST

(***************************************************************************)
(* C9.  The handlers of NONE_OF_THE_ABOVE_CLICKED, NEGATIVE_FEEDBACK_GIVEN *)
(* and POSITIVE_FEEDBACK_GIVEN trigger their broadcast, and only it,       *)
(* before they call fetch; the request is then in flight.  While it is in  *)
(* flight and when its chain runs, whatever the answer, that broadcast is  *)
(* what the action had triggered before the call, and the chain does not   *)
(* trigger it.                                                             *)
(***************************************************************************)
C9_FeedbackBroadcastsFirst ==
    /\ \A action \in ImmediateFeedbackActions :
        /\ Dispatched(action)
            => /\ StepNames = <<ImmediateBroadcast(action)>>
               /\ Fetched
               /\ last.request.broadcasts = <<ImmediateBroadcast(action)>>
               /\ requests # <<>>
               /\ requests[Len(requests)] = last.request
        /\ ChainRan(action)
            => /\ last.request.broadcasts = <<ImmediateBroadcast(action)>>
               /\ ~Triggered(ImmediateBroadcast(action))
    /\ \A i \in 1..Len(requests) :
        requests[i].action \in ImmediateFeedbackActions
            => requests[i].broadcasts = <<ImmediateBroadcast(requests[i].action)>>

\* C9's case: the feedback request failed after its broadcast had gone out.
C9_Witness ==
    /\ ChainRan("NEGATIVE_FEEDBACK_GIVEN")
    /\ last.request.broadcasts = <<NEGATIVE_FEEDBACK_RECEIVED_BROADCAST>>
    /\ last.response = Rejected
    /\ Triggered(SERVER_ERROR_BROADCAST)

\* The statuses an action takes for a success.
Accepted(action, status) ==
    IF action \in FeedbackActions
    THEN 200 <= status /\ status < 300
    ELSE status = 200

\* What each kind of step triggers of SERVER_ERROR_BROADCAST.
C10_ErrorsAreReportedOnce ==
    /\ last.op = "response"
        => LET failed ==
                \/ last.response.type = "rejected"
                \/ ~Accepted(last.request.action, last.response.status)
               succeeded ==
                /\ last.response.type = "response"
                /\ Accepted(last.request.action, last.response.status)
                /\ last.request.action \in FeedbackActions \/ last.response.json
           IN  /\ failed => StepNames = <<SERVER_ERROR_BROADCAST>>
               /\ succeeded => ~Triggered(SERVER_ERROR_BROADCAST)
    /\ last.op # "response" => ~Triggered(SERVER_ERROR_BROADCAST)
    /\ \A i \in 1..Len(requests) :
        \A k \in 1..Len(requests[i].broadcasts) :
            requests[i].broadcasts[k] # SERVER_ERROR_BROADCAST

\* A chain calls no fetch.
C10_NoRetry ==
    last'.op = "response"
        => /\ issued' = issued
           /\ Len(requests') = Len(requests) - 1

(***************************************************************************)
(* C10.  The chain of a request that was rejected, or answered with a      *)
(* status its action does not accept, triggers SERVER_ERROR_BROADCAST once *)
(* and nothing else; the chain of a request that succeeded triggers no     *)
(* SERVER_ERROR_BROADCAST; no handler triggers one, the cache-hit path     *)
(* included, and none is triggered for a request still in flight; and a    *)
(* chain issues no request: it only ends the one it ran for.               *)
(***************************************************************************)
C10_EveryFailureReportedOnce ==
    /\ []C10_ErrorsAreReportedOnce
    /\ [][C10_NoRetry]_vars

\* C10's case: the request for the top questions was rejected and the error
\* was broadcast.
C10_Witness ==
    /\ ChainRan("GET_TOP_QUESTIONS")
    /\ last.response = Rejected
    /\ StepNames = <<SERVER_ERROR_BROADCAST>>

\* What a step of SET_CURRENT_QUESTION does, the id being cached or not.
C11_Step ==
    last'.op = "SET_CURRENT_QUESTION"
        => LET messageId == last'.arg.messageId
           IN  /\ last'.broadcasts = <<>>
               /\ last'.request = Undefined
               /\ UNCHANGED <<questionCache, questionHistory, requests, issued>>
               /\ IF messageId \notin {Undefined, Str("")} /\ InCache(messageId)
                  THEN conversation' =
                        [conversation EXCEPT
                            !.message = questionCache[ToString(messageId)].message,
                            !.messageId = messageId,
                            !.responses = questionCache[ToString(messageId)].responses]
                  ELSE UNCHANGED conversation

(***************************************************************************)
(* C11.  SET_CURRENT_QUESTION with a messageId that is falsy or not a key  *)
(* of the cache leaves the whole conversation, the cache and the history   *)
(* as they were and triggers nothing; with a cached messageId it           *)
(* overwrites message, messageId and responses of the conversation from    *)
(* the cache entry and nothing else (conversationId and topQuestions       *)
(* stay), again with no broadcast and no request.                          *)
(***************************************************************************)
C11_SetCurrentQuestionOnlyRecalls == [][C11_Step]_vars

\* C11's case: the conversation stood at the answer "" and was set back to
\* the cached "m1".
C11_Witness ==
    /\ last.op = "SET_CURRENT_QUESTION"
    /\ last.arg.messageId = Str("m1")
    /\ questionHistory = <<Str("m1"), Str("")>>
    /\ conversation.messageId = Str("m1")
    /\ conversation.message = questionCache["m1"].message

\* What a step of UPDATE_REFINEMENT_QUESTIONS does and triggers.
C12_Step ==
    last'.op = "UPDATE_REFINEMENT_QUESTIONS"
        => LET messageId == last'.arg.messageId
               hit == messageId \notin {Undefined, Str("")} /\ InCache(messageId)
           IN  /\ UNCHANGED <<conversation, questionCache, questionHistory>>
               /\ UNCHANGED <<requests, issued>>
               /\ last'.request = Undefined
               /\ hit => last'.broadcasts =
                    <<Broadcast(UPDATE_REFINEMENT_QUESTIONS_BROADCAST,
                        [messageId |-> messageId,
                         message |-> questionCache[ToString(messageId)].message,
                         responses |-> questionCache[ToString(messageId)].responses])>>
               /\ ~hit => last'.broadcasts = <<>>

(***************************************************************************)
(* C12.  UPDATE_REFINEMENT_QUESTIONS changes neither the conversation nor  *)
(* the cache nor the history (and issues no request).  It triggers         *)
(* UPDATE_REFINEMENT_QUESTIONS_BROADCAST, once, exactly when its messageId *)
(* is truthy and a key of the cache; the payload is an object with that    *)
(* messageId and the cached message and responses.  On a miss it triggers  *)
(* nothing.                                                                *)
(***************************************************************************)
C12_RefinementQuestionsAreOnlyBroadcast == [][C12_Step]_vars

\* C12's case: the refinement questions of the cached "m1" were broadcast
\* while the conversation stood at another message.
C12_Witness ==
    /\ last.op = "UPDATE_REFINEMENT_QUESTIONS"
    /\ last.arg.messageId = Str("m1")
    /\ StepNames = <<UPDATE_REFINEMENT_QUESTIONS_BROADCAST>>
    /\ last.broadcasts[1].payload.message = questionCache["m1"].message
    /\ conversation.messageId # Str("m1")
    /\ conversation.message # questionCache["m1"].message

\* The calls whose chain reads the JSON of the answer.
ContentActions == {"CONVERSATION_START", "ASK_QUESTION", "GET_TOP_QUESTIONS"}

\* What a chain does with the status of the answer it got.
C13_Step ==
    (last'.op = "response" /\ last'.response.type = "response")
        => LET action == last'.request.action
               status == last'.response.status
               names == Names(last'.broadcasts)
               failed == names = <<SERVER_ERROR_BROADCAST>>
               untouched == UNCHANGED <<conversation, questionCache, questionHistory>>
           IN  /\ action \in FeedbackActions
                    => /\ (200 <= status /\ status < 300) => names = <<>>
                       /\ (status < 200 \/ status >= 300) => failed
                       /\ untouched
               /\ action \in ContentActions
                    => /\ status # 200 => failed /\ untouched
                       /\ (status = 200 /\ last'.response.json)
                            => /\ names # <<>>
                               /\ \A k \in 1..Len(names) :
                                    names[k] # SERVER_ERROR_BROADCAST
               /\ action \in FeedbackActions \cup ContentActions

(***************************************************************************)
(* C13.  The chains accept two different ranges of statuses.  A feedback   *)
(* POST succeeds (nothing is triggered) for every status in [200, 300) and *)
(* fails outside it; a content call (CONVERSATION_START, ASK_QUESTION,      *)
(* GET_TOP_QUESTIONS) succeeds only for the status 200, and with a 200      *)
(* whose JSON parses it triggers its broadcasts and no error.  A status    *)
(* that is not accepted, a 204 on a content call for one, triggers         *)
(* SERVER_ERROR_BROADCAST alone and has none of the effects of success:    *)
(* conversation, cache and history stay as they were.                      *)
(***************************************************************************)
C13_TwoRangesOfSuccess == [][C13_Step]_vars

\* C13's case: an ASK_QUESTION answered with a 204 and a good body, after an
\* earlier answer, was reported as an error.
C13_Witness ==
    /\ ChainRan("ASK_QUESTION")
    /\ last.response.type = "response"
    /\ last.response.status = 204
    /\ last.response.json
    /\ StepNames = <<SERVER_ERROR_BROADCAST>>
    /\ questionHistory # <<>>

\* history is the beginning of later.
IsPrefix(history, later) ==
    /\ Len(history) <= Len(later)
    /\ \A k \in 1..Len(history) : later[k] = history[k]

\* No step takes a key from the cache or an element from the history.
C14_Step ==
    /\ DOMAIN questionCache \subseteq DOMAIN questionCache'
    /\ IsPrefix(questionHistory, questionHistory')

(***************************************************************************)
(* C14.  The cache and the history only grow: every key of the cache is    *)
(* still a key after any step (its entry may be overwritten), and the      *)
(* history before any step is a prefix of the history after it.  Holding   *)
(* of every step, both hold between any earlier and any later state.       *)
(***************************************************************************)
C14_CacheAndHistoryOnlyGrow == [][C14_Step]_vars

\* C14's case: a second answer, under another id, joined the first in the
\* cache and in the history.
C14_Witness ==
    /\ ChainRan("ASK_QUESTION")
    /\ Got200WithJson
    /\ Cardinality(DOMAIN questionCache) = 2
    /\ Len(questionHistory) = 2
    /\ questionHistory[1] # questionHistory[2]

\* The answer to any question in flight may be the next one processed,
\* whatever was asked before or after it.
C15_AnyOrder ==
    \A i \in 1..Len(requests) :
        requests[i].action = "ASK_QUESTION"
            => \A data \in AskData : ENABLED AskResponse(i, Response(200, data))

\* After an answer was applied the conversation is that answer: its id is
\* the one just pushed and its message and responses the ones just cached,
\* and it is what was broadcast.
C15_LastProcessedWins ==
    (ChainRan("ASK_QUESTION") /\ Got200WithJson)
        => LET messageId == questionHistory[Len(questionHistory)]
               entry == questionCache[ToString(messageId)]
           IN  /\ conversation.messageId = messageId
               /\ conversation.message = entry.message
               /\ conversation.responses = entry.responses
               /\ last.broadcasts = AnswerBroadcasts(conversation)

(***************************************************************************)
(* C15.  Answers are applied in the order they arrive, not the order the   *)
(* questions were asked: any ASK_QUESTION request in flight can be the     *)
(* next one answered, and once an answer was applied the conversation      *)
(* (message, messageId, responses) is that answer, also when the answer to *)
(* a question asked later had been applied before it.  The final state is  *)
(* that of the response processed last.                                    *)
(***************************************************************************)
C15_AnswersApplyInArrivalOrder ==
    C15_AnyOrder /\ C15_LastProcessedWins

\* C15's case: two questions were in flight, the second was answered first,
\* and the answer to the first, arriving last, replaced it in the
\* conversation.
C15_Witness ==
    /\ ChainRan("ASK_QUESTION")
    /\ Got200WithJson
    /\ last.request.overtaken
    /\ requests = <<>>
    /\ Len(questionHistory) = 2
    /\ questionHistory[1] # questionHistory[2]
    /\ conversation.messageId = questionHistory[2]
    /\ conversation.message # questionCache[ToString(questionHistory[1])].message

(***************************************************************************)
(* C16.  The broadcasts of one ASK_QUESTION come in a fixed order.  The    *)
(* handler triggers ASKING_QUESTION_BROADCAST first on both paths: on a    *)
(* cache hit it goes on with ANSWER_RECEIVED_BROADCAST and then            *)
(* ALTERNATIVE_QUESTION_BROADCAST and issues no request; on a miss the     *)
(* asking signal is all it triggers, before the request.  The chain of     *)
(* that request then triggers ANSWER_RECEIVED_BROADCAST followed by        *)
(* ALTERNATIVE_QUESTION_BROADCAST on success, and on failure                *)
(* SERVER_ERROR_BROADCAST and neither of the two.                          *)
(***************************************************************************)
C16_AskBroadcastsInOrder ==
    /\ Dispatched("ASK_QUESTION")
        => IF Fetched
           THEN /\ StepNames = <<ASKING_QUESTION_BROADCAST>>
                /\ last.request.broadcasts = <<ASKING_QUESTION_BROADCAST>>
           ELSE StepNames = <<ASKING_QUESTION_BROADCAST,
                              ANSWER_RECEIVED_BROADCAST,
                              ALTERNATIVE_QUESTION_BROADCAST>>
    /\ ChainRan("ASK_QUESTION")
        => LET names == last.request.broadcasts \o StepNames
           IN  IF Got200WithJson
               THEN names = <<ASKING_QUESTION_BROADCAST,
                              ANSWER_RECEIVED_BROADCAST,
                              ALTERNATIVE_QUESTION_BROADCAST>>
               ELSE names = <<ASKING_QUESTION_BROADCAST, SERVER_ERROR_BROADCAST>>

\* C16's case: a question asked over the network failed after its asking
\* signal, and an earlier one had been answered.
C16_Witness ==
    /\ ChainRan("ASK_QUESTION")
    /\ ~Got200WithJson
    /\ last.request.broadcasts = <<ASKING_QUESTION_BROADCAST>>
    /\ StepNames = <<SERVER_ERROR_BROADCAST>>
    /\ Len(questionHistory) = 1

\* The request whose chain just ran failed: it was rejected, or answered
\* with a status its action does not accept, or with a body that is no JSON
\* where the chain reads it.
Failed ==
    /\ last.op = "response"
    /\ \/ last.response.type = "rejected"
       \/ ~Accepted(last.request.action, last.response.status)
       \/ last.request.action \in ContentActions /\ ~last.response.json

\* The chain of a failed request changes nothing in the store.
C17_Step ==
    Failed' => UNCHANGED <<conversation, questionCache, questionHistory>>

\* After a failure every handler still runs (as long as requests may be
\* issued at all), and the answer to a question in flight is still taken.
C17_StillAccepting ==
    Failed
        => /\ StepNames = <<SERVER_ERROR_BROADCAST>>
           /\ issued < MaxRequests
                => /\ ENABLED ConversationStart
                   /\ \A question \in Questions : ENABLED AskQuestion(question)
                   /\ ENABLED NoneOfTheAboveClicked
                   /\ ENABLED NegativeFeedbackGiven
                   /\ ENABLED PositiveFeedbackGiven
                   /\ \A messageId \in QuestionMessageIds :
                        ENABLED ForumButtonPressed(messageId)
                   /\ ENABLED GetTopQuestions
           /\ \A messageId \in QuestionMessageIds :
                /\ ENABLED SetCurrentQuestion([messageId |-> messageId])
                /\ ENABLED UpdateRefinementQuestions([messageId |-> messageId])
           /\ ENABLED GetAlternativeQuestions
           /\ \A i \in 1..Len(requests), data \in AskData :
                requests[i].action = "ASK_QUESTION"
                    => ENABLED AskResponse(i, Response(200, data))

(***************************************************************************)
(* C17.  A failed request changes nothing: conversation, cache and history *)
(* after its chain ran are exactly what they were before, and the one      *)
(* thing the chain does is trigger SERVER_ERROR_BROADCAST.  The store      *)
(* keeps no mark of the failure: in the state after it every handler is    *)
(* still enabled, ASK_QUESTION among them, and a question in flight can    *)
(* still be answered with success.                                         *)
(***************************************************************************)
C17_FailureLeavesTheStoreUsable ==
    /\ []C17_StillAccepting
    /\ [][C17_Step]_vars

\* C17's case: a request failed while the store held an answer.
C17_Witness ==
    /\ Failed
    /\ StepNames = <<SERVER_ERROR_BROADCAST>>
    /\ questionHistory # <<>>
    /\ conversation.messageId = questionHistory[1]

(***************************************************************************)
(* C18.  The request ASK_QUESTION issues on the network path has           *)
(* referrer.messageId exactly when the question's referrer is the          *)
(* refinement query type, and its value is conversation.messageId as the   *)
(* handler found it (the handler does not change the conversation on this  *)
(* path, so it is the conversation of the state after the handler).  With  *)
(* any other referrer the request has referrer.source alone, and with no   *)
(* referrer it has no referrer at all.                                     *)
(***************************************************************************)
C18_ReferrerOfTheRequest ==
    (Dispatched("ASK_QUESTION") /\ Fetched)
        => LET referrer == last.request.body.referrer
           IN  /\ last.request = requests[Len(requests)]
               /\ last.arg.referrer = Str(refinementQueryType)
                    => /\ referrer.source = last.arg.referrer
                       /\ referrer.messageId # Undefined
                       /\ referrer.messageId = conversation.messageId
               /\ last.arg.referrer \notin {Undefined, Str(""), Str(refinementQueryType)}
                    => /\ referrer.source = last.arg.referrer
                       /\ referrer.messageId = Undefined
               /\ last.arg.referrer \in {Undefined, Str("")}
                    => referrer = Undefined

\* C18's case: a refinement query was sent with the id of the answer the
\* conversation stood at.
C18_Witness ==
    /\ Dispatched("ASK_QUESTION")
    /\ Fetched
    /\ last.arg.referrer = Str(refinementQueryType)
    /\ conversation.messageId = Str("m1")
    /\ last.request.body.referrer.messageId = Str("m1")

(***************************************************************************)
(* C19.  In every reachable state, whatever the order in which handlers    *)
(* ran and answers arrived: when conversation.messageId is not empty, it   *)
(* is a key of the cache, and conversation.message and                     *)
(* conversation.responses are the message and responses of that cache      *)
(* entry.  This covers an answer that overwrites an entry already in the   *)
(* cache, and the requests still in flight.                                *)
(***************************************************************************)
C19_ConversationMatchesItsCacheEntry ==
    conversation.messageId \notin {Undefined, Str("")}
        => /\ InCache(conversation.messageId)
           /\ conversation.message =
                questionCache[ToString(conversation.messageId)].message
           /\ conversation.responses =
                questionCache[ToString(conversation.messageId)].responses

\* C19's case: a second answer came under the id of the first and replaced
\* its cache entry, with responses to show.
C19_Witness ==
    /\ ChainRan("ASK_QUESTION")
    /\ Got200WithJson
    /\ questionHistory = <<Str("m1"), Str("m1")>>
    /\ conversation.messageId = Str("m1")
    /\ conversation.responses # Arr(<<>>)
    /\ questionCache["m1"].responses = conversation.responses

\* The keys of the cache are the ids of the history, and the history is at
\* least as long as the cache has keys.
C20_KeysAreTheHistory ==
    /\ DOMAIN questionCache =
            {ToString(questionHistory[k]) : k \in 1..Len(questionHistory)}
    /\ Len(questionHistory) >= Cardinality(DOMAIN questionCache)

\* The history changes in the chain of an ASK_QUESTION request that
\* succeeded, by one element at its end, and in no other step.
C20_Step ==
    IF ChainRan("ASK_QUESTION")' /\ Got200WithJson'
    THEN /\ Len(questionHistory') = Len(questionHistory) + 1
         /\ IsPrefix(questionHistory, questionHistory')
         /\ questionHistory'[Len(questionHistory')] = conversation'.messageId
    ELSE UNCHANGED questionHistory

(***************************************************************************)
(* C20.  The set of the keys of the cache is the set of the messageIds in  *)
(* the history.  The history has one element for each answer to            *)
(* ASK_QUESTION that came over the network with success, in the order the  *)
(* answers were processed: each such answer appends its messageId, also    *)
(* when the history has it already, so the history is at least as long as  *)
(* the cache has keys.  No other step appends: not the replay of a cached  *)
(* answer by ASK_QUESTION, and not SET_CURRENT_QUESTION.                   *)
(***************************************************************************)
C20_HistoryRecordsNetworkAnswers ==
    /\ []C20_KeysAreTheHistory
    /\ [][C20_Step]_vars

\* C20's case: two answers came under one id, and the answer was then
\* replayed from the cache: two elements in the history, one key.
C20_Witness ==
    /\ Dispatched("ASK_QUESTION")
    /\ ~Fetched
    /\ Len(questionHistory) = 2
    /\ Cardinality(DOMAIN questionCache) = 1

====
